---- MODULE Spec2Model ----
(***************************************************************************)
(* A model of the space-filler crate: the bit primitives (src/bits.rs),    *)
(* the Morton decoder and its incremental iterator (src/morton.rs), the    *)
(* Hilbert decoder (src/hilbert.rs), the point computation of the terminal *)
(* demo (examples/print.rs) and the single-file snapshot of the decoders   *)
(* (src/lib.rs).                                                           *)
(*                                                                         *)
(* CurveIdx (u16) and Coordinate (u8) values are naturals below 2^16 and   *)
(* 2^8.  A NumBits (u32) value that comes from a caller is a pair          *)
(* <<hi, lo>> of 16-bit halves, so that the whole u32 range is available;  *)
(* loop counters that never leave 0..16 are plain naturals.                *)
(*                                                                         *)
(* Specifications: SpecHilbert, SpecMorton and SpecIter apply the decoders *)
(* and the iterator over the whole index range; SpecMask calls             *)
(* low_order_mask; SpecBits runs each bit primitive on its own, one loop   *)
(* iteration at a time; SpecWidths enters decode_2d with integer types of  *)
(* other widths; SpecPair advances two iterator instances side by side;    *)
(* SpecSnapshot calls the functions of the snapshot; SpecSteps runs        *)
(* morton::decode_2d one loop iteration at a time.                         *)
(***************************************************************************)
EXTENDS Integers, Sequences, FiniteSets, TLC

(***************************************************************************)
(* Type widths (src/lib.rs)                                                *)
(***************************************************************************)
\* num_bits::<CurveIdx>(), CurveIdx = u16
CurveIdxBits == 16

\* num_bits::<Coordinate>(), Coordinate = u8
CoordinateBits == 8

\* num_bits::<Coordinates2D>(), Coordinates2D = [u8; 2]
Coordinates2DBits == 16

\* Half of the width of NumBits = u32: a NumBits value is <<hi, lo>>
NumBitsHalfBits == 16

Pow2(n) == 2 ^ n

CurveIdxMod == Pow2(CurveIdxBits)

CoordinateMod == Pow2(CoordinateBits)

HalfMod == Pow2(NumBitsHalfBits)

\* CurveIdx::MIN and CurveIdx::MAX
CurveIdxMin == 0

CurveIdxMax == CurveIdxMod - 1

\* Coordinate::MAX
CoordinateMax == CoordinateMod - 1

CurveIdxValues == CurveIdxMin..CurveIdxMax

(***************************************************************************)
(* NumBits (u32) values as pairs of 16-bit halves                          *)
(***************************************************************************)
\* the u32 with value n, for a natural n that TLC can hold
U32(n) == << n \div HalfMod, n % HalfMod >>

\* a < b on u32
U32Less(a, b) == a[1] < b[1] \/ (a[1] = b[1] /\ a[2] < b[2])

\* 2 * a on u32, keeping the low 32 bits
U32Twice(a) == << (2 * a[1] + (2 * a[2]) \div HalfMod) % HalfMod, (2 * a[2]) % HalfMod >>

\* 2 * a does not fit in a u32
U32TwiceOverflows(a) == a[1] >= HalfMod \div 2

\* the value of a u32 known to be below 2^16
U32Low(a) == a[2]

(***************************************************************************)
(* The machine's bitwise operators on unsigned integers                    *)
(***************************************************************************)
RECURSIVE BitAnd(_, _)
BitAnd(a, b) ==
    IF a = 0 \/ b = 0 THEN 0
    ELSE (a % 2) * (b % 2) + 2 * BitAnd(a \div 2, b \div 2)

RECURSIVE BitOr(_, _)
BitOr(a, b) ==
    IF a = 0 THEN b
    ELSE IF b = 0 THEN a
    ELSE (IF a % 2 = 1 \/ b % 2 = 1 THEN 1 ELSE 0) + 2 * BitOr(a \div 2, b \div 2)

RECURSIVE BitXor(_, _)
BitXor(a, b) ==
    IF a = 0 THEN b
    ELSE IF b = 0 THEN a
    ELSE ((a + b) % 2) + 2 * BitXor(a \div 2, b \div 2)

\* !a on a Coordinate
NotCoordinate(a) == CoordinateMax - a

\* a << k on a CurveIdx, for a shift amount k below the width
ShlCurveIdx(a, k) == (a * Pow2(k)) % CurveIdxMod

\* a >> k on an unsigned integer, for a shift amount k below the width
Shr(a, k) == a \div Pow2(k)

\* `as Coordinate`: the narrowing cast keeps the low 8 bits
AsCoordinate(a) == a % CoordinateMod

\* u16::trailing_ones
RECURSIVE trailing_ones(_)
trailing_ones(a) == IF a % 2 = 1 THEN 1 + trailing_ones(a \div 2) ELSE 0

\* bit p of a (bit 0 is the lowest-order one)
Bit(a, p) == (a \div Pow2(p)) % 2

(***************************************************************************)
(* src/bits.rs                                                             *)
(***************************************************************************)
\* (mutant) the bound is inclusive: length 16 reaches the shift, whose amount
\* the machine takes modulo the width
low_order_mask_inclusive_bound(length) ==
    IF U32Less(length, U32(CurveIdxBits + 1))
    THEN ShlCurveIdx(1, U32Low(length) % CurveIdxBits) - 1
    ELSE CurveIdxMax

\* (mutant) no saturation: every length reaches the shift, whose amount the
\* machine takes modulo the width
low_order_mask_unsaturated(length) ==
    ShlCurveIdx(1, U32Low(length) % CurveIdxBits) - 1

low_order_mask(length) ==
    IF U32Less(length, U32(CurveIdxBits))
    THEN ShlCurveIdx(1, U32Low(length)) - 1
    ELSE CurveIdxMax

\* the condition of the loop of striped_mask
striped_mask_continues(curr_length) == U32Less(curr_length, U32(CurveIdxBits))

\* (mutant) the shifted copy replaces the stripes instead of joining them
striped_mask_iteration_assign(stripes, curr_length) ==
    << ShlCurveIdx(stripes, U32Low(curr_length)), U32Twice(curr_length) >>

\* (mutant) curr_length is not doubled
striped_mask_iteration_same_length(stripes, curr_length) ==
    << BitOr(stripes, ShlCurveIdx(stripes, U32Low(curr_length))), curr_length >>

\* one iteration of the loop of striped_mask: the new << stripes, curr_length >>
striped_mask_iteration(stripes, curr_length) ==
    << BitOr(stripes, ShlCurveIdx(stripes, U32Low(curr_length))), U32Twice(curr_length) >>

\* the loop of striped_mask
RECURSIVE striped_mask_loop(_, _)
striped_mask_loop(stripes, curr_length) ==
    IF striped_mask_continues(curr_length)
    THEN LET after == striped_mask_iteration(stripes, curr_length)
         IN  striped_mask_loop(after[1], after[2])
    ELSE stripes

striped_mask(stripe_length) ==
    striped_mask_loop(low_order_mask(stripe_length), U32Twice(stripe_length))

\* (mutant) the scan folds the bits in from the wrong side
RECURSIVE inclusive_scan_loop_rtl(_, _)
inclusive_scan_loop_rtl(bits, stride) ==
    IF stride < CoordinateBits
    THEN inclusive_scan_loop_rtl(BitXor(bits, (bits * Pow2(stride)) % CoordinateMod),
                                 stride * 2)
    ELSE bits

\* the condition of the loop of bitwise_xor_ltr_inclusive_scan
inclusive_scan_continues(stride) == stride < CoordinateBits

\* (mutant) the stride grows by one instead of doubling
inclusive_scan_iteration_linear(bits, stride) ==
    << BitXor(bits, Shr(bits, stride)), stride + 1 >>

\* one iteration of the loop of bitwise_xor_ltr_inclusive_scan: the new
\* << bits, stride >>
inclusive_scan_iteration(bits, stride) ==
    << BitXor(bits, Shr(bits, stride)), stride * 2 >>

\* the loop of bitwise_xor_ltr_inclusive_scan
RECURSIVE inclusive_scan_loop(_, _)
inclusive_scan_loop(bits, stride) ==
    IF inclusive_scan_continues(stride)
    THEN LET after == inclusive_scan_iteration(bits, stride)
         IN  inclusive_scan_loop(after[1], after[2])
    ELSE bits

\* (mutant) a single pass of stride 1 instead of the doubling loop
bitwise_xor_ltr_inclusive_scan_one_pass(bits) == BitXor(bits, Shr(bits, 1))

bitwise_xor_ltr_inclusive_scan(bits) == inclusive_scan_loop(bits, 1)

\* (mutant) the operand is handed to the inclusive scan as it is
exclusive_scan_operand_unshifted(bits) == bits

\* the operand bitwise_xor_ltr_exclusive_scan hands to the inclusive scan
exclusive_scan_operand(bits) == Shr(bits, 1)

bitwise_xor_ltr_exclusive_scan(bits) ==
    bitwise_xor_ltr_inclusive_scan(exclusive_scan_operand(bits))

\* (mutant) the two results are returned in the wrong order
bitwise_swaps_reversed(swap_mask, src1, src2) ==
    LET same_mask == NotCoordinate(swap_mask)
        res1 == BitOr(BitAnd(src1, same_mask), BitAnd(src2, swap_mask))
        res2 == BitOr(BitAnd(src2, same_mask), BitAnd(src1, swap_mask))
    IN  << res2, res1 >>

\* (mutant) the second result selects src2 under both masks
bitwise_swaps_src2_twice(swap_mask, src1, src2) ==
    LET same_mask == NotCoordinate(swap_mask)
        res1 == BitOr(BitAnd(src1, same_mask), BitAnd(src2, swap_mask))
        res2 == BitOr(BitAnd(src2, same_mask), BitAnd(src2, swap_mask))
    IN  << res1, res2 >>

bitwise_swaps(swap_mask, src1, src2) ==
    LET same_mask == NotCoordinate(swap_mask)
        res1 == BitOr(BitAnd(src1, same_mask), BitAnd(src2, swap_mask))
        res2 == BitOr(BitAnd(src2, same_mask), BitAnd(src1, swap_mask))
    IN  << res1, res2 >>

(***************************************************************************)
(* src/morton.rs                                                           *)
(***************************************************************************)
\* striped_mask is a const fn of its argument alone: the masks of the stripe
\* lengths 1..8, among them the four that decode_2d asks for (1, 2, 4, 8), are
\* evaluated once here and looked up by the decoder.
morton_striped_mask ==
    << striped_mask(U32(1)), striped_mask(U32(2)), striped_mask(U32(3)),
       striped_mask(U32(4)), striped_mask(U32(5)), striped_mask(U32(6)),
       striped_mask(U32(7)), striped_mask(U32(8)) >>

\* (mutant) the paired groups are not re-masked after they are merged
RECURSIVE morton_group_loop_unmasked(_, _)
morton_group_loop_unmasked(sub_code, group_size) ==
    IF group_size < CurveIdxBits \div 2
    THEN morton_group_loop_unmasked(BitOr(sub_code, Shr(sub_code, group_size)),
                                    group_size * 2)
    ELSE sub_code

\* the condition of the inner loop of decode_2d, for the run that takes one
\* iteration at a time
morton_group_continues(group_size) == group_size < CurveIdxBits \div 2

\* (mutant) the merged groups are masked with the stripes of the old group size
morton_group_iteration_old_mask(sub_code, group_size) ==
    LET paired == BitOr(sub_code, Shr(sub_code, group_size))
    IN  << BitAnd(paired, morton_striped_mask[group_size]), group_size * 2 >>

\* one iteration of the inner loop of decode_2d: the new << sub_code, group_size >>
morton_group_iteration(sub_code, group_size) ==
    LET paired == BitOr(sub_code, Shr(sub_code, group_size))
        next_size == group_size * 2
    IN  << BitAnd(paired, morton_striped_mask[next_size]), next_size >>

\* the inner loop of decode_2d: pack the bits of one sub-code together
RECURSIVE morton_group_loop(_, _)
morton_group_loop(sub_code, group_size) ==
    IF group_size < CurveIdxBits \div 2
    THEN LET paired == BitOr(sub_code, Shr(sub_code, group_size))
             next_size == group_size * 2
         IN  morton_group_loop(BitAnd(paired, morton_striped_mask[next_size]), next_size)
    ELSE sub_code

\* one iteration of the outer loop of decode_2d
morton_sub_code(sub_code) ==
    morton_group_loop(BitAnd(sub_code, morton_striped_mask[1]), 1)

\* the debug_assert! at the entry of decode_2d
decode_2d_debug_assert == Coordinates2DBits >= CurveIdxBits \div 2

\* num_bits::<Coordinates2D>() when Coordinate is coord_bits wide
num_bits_Coordinates2D(coord_bits) == 2 * coord_bits

\* the debug_assert! at the entry of decode_2d, for types of any width
debug_assert_holds(index_bits, coord_bits) ==
    num_bits_Coordinates2D(coord_bits) >= index_bits \div 2

\* the cast at the end of decode_2d: a packed sub-code has index_bits / 2
\* significant bits, and `as Coordinate` keeps the coord_bits lowest of them
cast_drops_bits(index_bits, coord_bits) == index_bits \div 2 > coord_bits

morton_decode_2d(code) ==
    LET sub_codes == << code, Shr(code, 1) >>
    IN  << AsCoordinate(morton_sub_code(sub_codes[1])),
           AsCoordinate(morton_sub_code(sub_codes[2])) >>

\* (mutant) an exclusive range start..CurveIdx::MAX
range_next_exclusive(next, exhausted) ==
    IF exhausted \/ next >= CurveIdxMax
    THEN [item |-> << >>, next |-> next, exhausted |-> TRUE]
    ELSE [item |-> << next >>, next |-> next + 1, exhausted |-> FALSE]

\* next() of the range start..=CurveIdx::MAX that iter_from_2d maps over
range_next(next, exhausted) ==
    IF exhausted
    THEN [item |-> << >>, next |-> next, exhausted |-> TRUE]
    ELSE IF next < CurveIdxMax
         THEN [item |-> << next >>, next |-> next + 1, exhausted |-> FALSE]
         ELSE [item |-> << next >>, next |-> next, exhausted |-> TRUE]

\* idx.wrapping_add(1)
wrapping_add_1(idx) == (idx + 1) % CurveIdxMod

\* (mutant) the extra flipped bit goes to the second coordinate
iter_closure_odd_to_second(coords, idx) ==
    LET flipped_bits == BitXor(idx, wrapping_add_1(idx))
        num_flipped_bits == trailing_ones(flipped_bits)
        num_flipped_even == num_flipped_bits \div 2
        num_flipped_odd == num_flipped_bits - num_flipped_even
    IN  [result |-> coords,
         coords |-> << BitXor(coords[1], AsCoordinate(Shr(flipped_bits, num_flipped_odd))),
                       BitXor(coords[2], AsCoordinate(Shr(flipped_bits, num_flipped_even))) >>]

\* (mutant) a quarter of the flipped bits is counted as even
closure_locals_quarter(idx) ==
    LET flipped_bits == BitXor(idx, wrapping_add_1(idx))
        num_flipped_bits == trailing_ones(flipped_bits)
        num_flipped_even == num_flipped_bits \div 4
        num_flipped_odd == num_flipped_bits - num_flipped_even
    IN  [flipped_bits |-> flipped_bits,
         num_flipped_bits |-> num_flipped_bits,
         num_flipped_even |-> num_flipped_even,
         num_flipped_odd |-> num_flipped_odd,
         shifted_even |-> Shr(flipped_bits, num_flipped_even),
         shifted_odd |-> Shr(flipped_bits, num_flipped_odd)]

\* the locals of the closure of iter_from_2d when it maps idx, and the two
\* shifted flip masks before they are cast to Coordinate
closure_locals(idx) ==
    LET flipped_bits == BitXor(idx, wrapping_add_1(idx))
        num_flipped_bits == trailing_ones(flipped_bits)
        num_flipped_even == num_flipped_bits \div 2
        num_flipped_odd == num_flipped_bits - num_flipped_even
    IN  [flipped_bits |-> flipped_bits,
         num_flipped_bits |-> num_flipped_bits,
         num_flipped_even |-> num_flipped_even,
         num_flipped_odd |-> num_flipped_odd,
         shifted_even |-> Shr(flipped_bits, num_flipped_even),
         shifted_odd |-> Shr(flipped_bits, num_flipped_odd)]

\* the closure of iter_from_2d: the element to yield and the next coordinates
iter_closure(coords, idx) ==
    LET locals == closure_locals(idx)
    IN  [result |-> coords,
         coords |-> << BitXor(coords[1], AsCoordinate(locals.shifted_even)),
                       BitXor(coords[2], AsCoordinate(locals.shifted_odd)) >>]

\* (mutant) coords is one place that every closure reads and writes
captured_coords_shared(id) == 1

\* `move`: the closure of each iterator instance holds its own copy of coords
captured_coords(id) == id

(***************************************************************************)
(* src/hilbert.rs                                                          *)
(***************************************************************************)
\* (mutant) the coordinates are inverted by and_bits itself, not by its scan
hilbert_decode_2d_unscanned_not(code) ==
    LET decoded == morton_decode_2d(code)
        low_order == decoded[1]
        high_order == decoded[2]
        and_bits == BitAnd(low_order, high_order)
        xor_bits == BitXor(low_order, high_order)
        not_xor_bits == NotCoordinate(xor_bits)
        coord_swap_bits == bitwise_xor_ltr_exclusive_scan(not_xor_bits)
        coord_not_bits == and_bits
        swapped == bitwise_swaps(coord_swap_bits, xor_bits, high_order)
    IN  << BitXor(swapped[1], coord_not_bits), BitXor(swapped[2], coord_not_bits) >>

hilbert_decode_2d(code) ==
    LET decoded == morton_decode_2d(code)
        low_order == decoded[1]
        high_order == decoded[2]
        and_bits == BitAnd(low_order, high_order)
        xor_bits == BitXor(low_order, high_order)
        not_xor_bits == NotCoordinate(xor_bits)
        coord_swap_bits == bitwise_xor_ltr_exclusive_scan(not_xor_bits)
        coord_not_bits == bitwise_xor_ltr_exclusive_scan(and_bits)
        swapped == bitwise_swaps(coord_swap_bits, xor_bits, high_order)
    IN  << BitXor(swapped[1], coord_not_bits), BitXor(swapped[2], coord_not_bits) >>

(***************************************************************************)
(* examples/print.rs: the points the demo computes and where it draws them *)
(***************************************************************************)
\* main draws the orders 1..=8
DemoMaxOrder == 8

DemoOrders == 1..DemoMaxOrder

coord_range(order) == Pow2(order)

num_points(order) == coord_range(order) * coord_range(order)

\* (mutant) the coordinates are never exchanged
coordinates_of_unswapped(order, decoded) == decoded

\* one element of `coordinates`, from the decoded point of its index
coordinates_of(order, decoded) ==
    IF order % 2 = 1 THEN << decoded[2], decoded[1] >> ELSE decoded

\* the closure to_index: the display position of a point, or a failed assertion
to_index(coords, range) ==
    IF coords[1] < range /\ coords[2] < range
    THEN [panic |-> FALSE, index |-> coords[2] * (range + 1) + coords[1]]
    ELSE [panic |-> TRUE, index |-> 0]

\* the closure to_dir
to_dir(src, dst) == << dst[1] - src[1], dst[2] - src[2] >>

(***************************************************************************)
(* src/lib.rs: the single-file snapshot of the crate, with its own copies  *)
(* of the bit primitives and of the two decoders                           *)
(***************************************************************************)
\* the condition of the loop of the snapshot's low_order_mask
snapshot_low_order_mask_continues(curr_length, length) == U32Less(curr_length, length)

\* (mutant) the copy is shifted by one bit, whatever the run length
snapshot_low_order_mask_iteration_shift_one(mask, curr_length) ==
    << BitOr(mask, ShlCurveIdx(mask, 1)), U32Twice(curr_length) >>

\* one iteration of the loop of the snapshot's low_order_mask: the new
\* << mask, curr_length >>
snapshot_low_order_mask_iteration(mask, curr_length) ==
    << BitOr(mask, ShlCurveIdx(mask, U32Low(curr_length))), U32Twice(curr_length) >>

\* the loop of the snapshot's low_order_mask
RECURSIVE snapshot_low_order_mask_loop(_, _, _)
snapshot_low_order_mask_loop(mask, curr_length, length) ==
    IF snapshot_low_order_mask_continues(curr_length, length)
    THEN LET after == snapshot_low_order_mask_iteration(mask, curr_length)
         IN  snapshot_low_order_mask_loop(after[1], after[2], length)
    ELSE mask

\* the snapshot's low_order_mask, for the lengths of its sanity check
\* (length <= num_bits::<CurveIdx>()), where every shift amount is below 16
snapshot_low_order_mask(length) ==
    IF length = U32(0)
    THEN 0
    ELSE snapshot_low_order_mask_loop(1, U32(1), length)

\* the loop of the snapshot's striped_mask
RECURSIVE snapshot_striped_mask_loop(_, _)
snapshot_striped_mask_loop(stripes, curr_length) ==
    IF U32Less(curr_length, U32(CurveIdxBits))
    THEN snapshot_striped_mask_loop(
             BitOr(stripes, ShlCurveIdx(stripes, U32Low(curr_length))),
             U32Twice(curr_length))
    ELSE stripes

\* (mutant) the stripes start from the low-order mask of twice the length
snapshot_striped_mask_wide(stripe_length) ==
    snapshot_striped_mask_loop(snapshot_low_order_mask(U32Twice(stripe_length)),
                               U32Twice(stripe_length))

\* the snapshot's striped_mask
snapshot_striped_mask(stripe_length) ==
    snapshot_striped_mask_loop(snapshot_low_order_mask(stripe_length),
                               U32Twice(stripe_length))

\* striped_mask is a const fn of its argument alone: the masks of the stripe
\* lengths 1..8, among them the four that decode_morton_2d asks for
\* (1, 2, 4, 8), are evaluated once here and looked up by the decoder.
snapshot_morton_striped_mask ==
    << snapshot_striped_mask(U32(1)), snapshot_striped_mask(U32(2)),
       snapshot_striped_mask(U32(3)), snapshot_striped_mask(U32(4)),
       snapshot_striped_mask(U32(5)), snapshot_striped_mask(U32(6)),
       snapshot_striped_mask(U32(7)), snapshot_striped_mask(U32(8)) >>

\* the inner loop of decode_morton_2d
RECURSIVE snapshot_morton_group_loop(_, _)
snapshot_morton_group_loop(sub_code, group_size) ==
    IF group_size < CurveIdxBits \div 2
    THEN LET paired == BitOr(sub_code, Shr(sub_code, group_size))
             next_size == group_size * 2
         IN  snapshot_morton_group_loop(
                 BitAnd(paired, snapshot_morton_striped_mask[next_size]), next_size)
    ELSE sub_code

\* one iteration of the outer loop of decode_morton_2d
snapshot_morton_sub_code(sub_code) ==
    snapshot_morton_group_loop(BitAnd(sub_code, snapshot_morton_striped_mask[1]), 1)

decode_morton_2d(code) ==
    LET sub_codes == << code, Shr(code, 1) >>
    IN  << AsCoordinate(snapshot_morton_sub_code(sub_codes[1])),
           AsCoordinate(snapshot_morton_sub_code(sub_codes[2])) >>

\* the loop of the snapshot's bitwise_xor_ltr_inclusive_scan
RECURSIVE snapshot_inclusive_scan_loop(_, _)
snapshot_inclusive_scan_loop(bits, stride) ==
    IF stride < CoordinateBits
    THEN snapshot_inclusive_scan_loop(BitXor(bits, Shr(bits, stride)), stride * 2)
    ELSE bits

\* the snapshot's bitwise_xor_ltr_inclusive_scan
snapshot_bitwise_xor_ltr_inclusive_scan(bits) == snapshot_inclusive_scan_loop(bits, 1)

\* the snapshot's bitwise_xor_ltr_exclusive_scan
snapshot_bitwise_xor_ltr_exclusive_scan(bits) ==
    snapshot_bitwise_xor_ltr_inclusive_scan(Shr(bits, 1))

\* the snapshot's bitwise_swaps
snapshot_bitwise_swaps(swap_mask, src1, src2) ==
    LET same_mask == NotCoordinate(swap_mask)
        res1 == BitOr(BitAnd(src1, same_mask), BitAnd(src2, swap_mask))
        res2 == BitOr(BitAnd(src2, same_mask), BitAnd(src1, swap_mask))
    IN  << res1, res2 >>

decode_hilbert_2d(code) ==
    LET decoded == decode_morton_2d(code)
        low_order == decoded[1]
        high_order == decoded[2]
        and_bits == BitAnd(low_order, high_order)
        xor_bits == BitXor(low_order, high_order)
        not_xor_bits == NotCoordinate(xor_bits)
        coord_swap_bits == snapshot_bitwise_xor_ltr_exclusive_scan(not_xor_bits)
        coord_not_bits == snapshot_bitwise_xor_ltr_exclusive_scan(and_bits)
        swapped == snapshot_bitwise_swaps(coord_swap_bits, xor_bits, high_order)
    IN  << BitXor(swapped[1], coord_not_bits), BitXor(swapped[2], coord_not_bits) >>

(***************************************************************************)
(* State                                                                   *)
(***************************************************************************)
VARIABLES
    curve_idx,    \* the curve index handed to a decoder
    m_out,        \* <<>> or the result of morton::decode_2d(curve_idx)
    h_out,        \* <<>> or the result of hilbert::decode_2d(curve_idx)
    h_prev,       \* <<>> or the result of hilbert::decode_2d(curve_idx - 1)
    it_start,     \* the argument of iter_from_2d
    it_next,      \* the start field of the range start..=CurveIdx::MAX
    it_exhausted, \* the exhausted flag of that range
    it_coords,    \* the coordinates captured by the closure of iter_from_2d
    it_result,    \* <<>> or the last element the iterator has yielded
    it_count,     \* how many elements the iterator has yielded
    it_ended,     \* a call of next() has returned None
    mask_length,  \* the NumBits argument of low_order_mask
    mask_out,     \* <<>> or << the result of low_order_mask(mask_length) >>
    bits_op,      \* the bit primitive that is called, or "none"
    bits_pc,      \* where that call stands: "call", "loop", "done" or "panic"
    bits_steps,   \* how many iterations the loop of the call has run
    bits_out,     \* <<>> or the value the call has returned
    sm_length,    \* the NumBits argument of striped_mask
    sm_stripes,   \* the local stripes of striped_mask
    sm_curr,      \* the local curr_length of striped_mask
    sc_in,        \* the Coordinate argument of an XOR scan
    sc_bits,      \* the local bits of bitwise_xor_ltr_inclusive_scan
    sc_stride,    \* the local stride of bitwise_xor_ltr_inclusive_scan
    sw_mask,      \* the argument swap_mask of bitwise_swaps
    sw_src1,      \* the argument src1 of bitwise_swaps
    sw_src2,      \* the argument src2 of bitwise_swaps
    sw_back,      \* <<>> or bitwise_swaps(sw_mask, r1, r2) for the [r1, r2] returned
    w_index_bits, \* the width of the integer type behind CurveIdx
    w_coord_bits, \* the width of the integer type behind Coordinate
    w_debug,      \* the build has debug assertions enabled
    w_entry,      \* the public function that is called, or "none"
    w_outcome,    \* "none", or how the call ended: "panic", "truncated", "decoded"
    pi_iters,     \* per iterator instance: the range it maps over and what it yielded
    pi_coords,    \* per closure: the coords it has captured
    sn_op,        \* the function of the snapshot src/lib.rs that is called, or "none"
    sn_length,    \* the NumBits argument of the snapshot's low_order_mask
    sn_out,       \* <<>>, << the mask >> or the coordinates that call has returned
    md_pc,        \* where a stepwise decode_2d stands: "idle", "call", "outer", "inner", "done"
    md_sub_codes, \* the local sub_codes of decode_2d
    md_sub_code_idx, \* the local sub_code_idx of decode_2d
    md_sub_code,  \* the local sub_code of decode_2d
    md_group_size \* the local group_size of decode_2d

decode_vars == << curve_idx, m_out, h_out, h_prev >>

iter_vars == << it_start, it_next, it_exhausted, it_coords, it_result, it_count, it_ended >>

mask_vars == << mask_length, mask_out >>

call_vars == << bits_op, bits_pc, bits_steps, bits_out >>

stripe_vars == << sm_length, sm_stripes, sm_curr >>

scan_vars == << sc_in, sc_bits, sc_stride >>

swaps_vars == << sw_mask, sw_src1, sw_src2, sw_back >>

bits_vars == << call_vars, stripe_vars, scan_vars, swaps_vars >>

width_vars == << w_index_bits, w_coord_bits, w_debug, w_entry, w_outcome >>

pair_vars == << pi_iters, pi_coords >>

snap_vars == << sn_op, sn_length, sn_out >>

steps_vars == << md_pc, md_sub_codes, md_sub_code_idx, md_sub_code, md_group_size >>

late_vars == << snap_vars, steps_vars >>

rest_vars == << bits_vars, width_vars, pair_vars, late_vars >>

vars == << decode_vars, iter_vars, mask_vars, rest_vars >>

None == << >>

\* no decoder has been called
IdleDecode ==
    /\ curve_idx = CurveIdxMin
    /\ m_out = None
    /\ h_out = None
    /\ h_prev = None

\* no iterator has been made
IdleIter ==
    /\ it_start = CurveIdxMin
    /\ it_next = CurveIdxMin
    /\ it_exhausted = FALSE
    /\ it_coords = None
    /\ it_result = None
    /\ it_count = 0
    /\ it_ended = FALSE

\* no mask has been asked for
IdleMask ==
    /\ mask_length = U32(0)
    /\ mask_out = None

\* striped_mask is not running
IdleStripe ==
    /\ sm_length = U32(0)
    /\ sm_stripes = 0
    /\ sm_curr = U32(0)

\* no XOR scan is running
IdleScan ==
    /\ sc_in = 0
    /\ sc_bits = 0
    /\ sc_stride = 0

\* bitwise_swaps has not been called
IdleSwaps ==
    /\ sw_mask = 0
    /\ sw_src1 = 0
    /\ sw_src2 = 0
    /\ sw_back = None

\* no bit primitive is called on its own
IdleBits ==
    /\ bits_op = "none"
    /\ bits_pc = "done"
    /\ bits_steps = 0
    /\ bits_out = None
    /\ IdleStripe
    /\ IdleScan
    /\ IdleSwaps

\* the widths are those of src/lib.rs and no call is followed
IdleWidths ==
    /\ w_index_bits = CurveIdxBits
    /\ w_coord_bits = CoordinateBits
    /\ w_debug = FALSE
    /\ w_entry = "none"
    /\ w_outcome = "none"

\* the iterator instances that are followed side by side
IterIds == { 1, 2 }

\* an instance that iter_from_2d has not made yet
NoIter ==
    [made |-> FALSE, start |-> CurveIdxMin, next |-> CurveIdxMin, exhausted |-> FALSE,
     result |-> None, count |-> 0, ended |-> FALSE]

\* no iterator instance has been made
IdlePair ==
    /\ pi_iters = [id \in IterIds |-> NoIter]
    /\ pi_coords = [id \in IterIds |-> None]

\* no function of the snapshot has been called
IdleSnapshot ==
    /\ sn_op = "none"
    /\ sn_length = U32(0)
    /\ sn_out = None

\* no stepwise decode_2d is running
IdleSteps ==
    /\ md_pc = "idle"
    /\ md_sub_codes = None
    /\ md_sub_code_idx = 0
    /\ md_sub_code = 0
    /\ md_group_size = 0

IdleLate == IdleSnapshot /\ IdleSteps

IdleRest == IdleBits /\ IdleWidths /\ IdlePair /\ IdleLate

(***************************************************************************)
(* The Hilbert decoder applied along the curve, as its callers do          *)
(* (the loop of tests::decode_2d, the map over 0..num_points of the demo)  *)
(***************************************************************************)
InitHilbert ==
    /\ curve_idx \in CurveIdxValues
    /\ m_out = None
    /\ h_out = None
    /\ h_prev = None
    /\ IdleIter
    /\ IdleMask
    /\ IdleRest

HilbertDecode ==
    /\ h_out = None
    /\ decode_2d_debug_assert
    /\ h_out' = hilbert_decode_2d(curve_idx)
    /\ UNCHANGED << curve_idx, m_out, h_prev, iter_vars, mask_vars, rest_vars >>

HilbertAdvance ==
    /\ h_out # None
    /\ curve_idx < CurveIdxMax
    /\ curve_idx' = curve_idx + 1
    /\ h_prev' = h_out
    /\ h_out' = None
    /\ UNCHANGED << m_out, iter_vars, mask_vars, rest_vars >>

NextHilbert == HilbertDecode \/ HilbertAdvance

SpecHilbert == InitHilbert /\ [][NextHilbert]_vars

(***************************************************************************)
(* Properties of the Hilbert decoder                                       *)
(***************************************************************************)
\* the bit pair (i, j) of a curve index at a recursion depth (0 = shallowest)
HighOrderBit(c, depth) == Bit(c, CurveIdxBits - 1 - 2 * depth)

LowOrderBit(c, depth) == Bit(c, CurveIdxBits - 2 - 2 * depth)

Xor1(a, b) == (a + b) % 2

\* the per-depth reference: explicit swap and invert state, one bit pair at a time
RECURSIVE hilbert_reference_loop(_, _, _, _, _)
hilbert_reference_loop(c, depth, results, swap, invert) ==
    IF depth < CoordinateBits
    THEN LET i == HighOrderBit(c, depth)
             j == LowOrderBit(c, depth)
             x_bit == IF swap = 1 THEN i ELSE Xor1(i, j)
             y_bit == IF swap = 1 THEN Xor1(i, j) ELSE i
         IN  hilbert_reference_loop(c, depth + 1,
                 << 2 * results[1] + Xor1(x_bit, invert),
                    2 * results[2] + Xor1(y_bit, invert) >>,
                 Xor1(swap, 1 - Xor1(i, j)),
                 Xor1(invert, i * j))
    ELSE results

hilbert_reference(c) == hilbert_reference_loop(c, 0, << 0, 0 >>, 0, 0)

\* the curve index of a point: the per-depth construction run backwards
RECURSIVE hilbert_index_loop(_, _, _, _, _)
hilbert_index_loop(point, depth, index, swap, invert) ==
    IF depth < CoordinateBits
    THEN LET xb == Xor1(Bit(point[1], CoordinateBits - 1 - depth), invert)
             yb == Xor1(Bit(point[2], CoordinateBits - 1 - depth), invert)
             i == IF swap = 1 THEN xb ELSE yb
             j == Xor1(xb, yb)
         IN  hilbert_index_loop(point, depth + 1, 4 * index + 2 * i + j,
                 Xor1(swap, 1 - Xor1(i, j)), Xor1(invert, i * j))
    ELSE index

hilbert_index(point) == hilbert_index_loop(point, 0, 0, 0, 0)

Abs(n) == IF n < 0 THEN -n ELSE n

\* C1: Hilbert adjacency.  Whenever the points of two consecutive indices
\* curve_idx - 1 and curve_idx have both been decoded, they differ by exactly 1 in
\* exactly one coordinate and by 0 in the other.
C1_HilbertAdjacency ==
    (h_prev # None /\ h_out # None) =>
        LET dir == to_dir(h_prev, h_out)
        IN  \/ (Abs(dir[1]) = 1 /\ dir[2] = 0)
            \/ (dir[1] = 0 /\ Abs(dir[2]) = 1)

\* the last consecutive pair (65534, 65535) has been decoded
C1_Witness == h_prev # None /\ h_out # None /\ curve_idx = CurveIdxMax

\* C2: Hilbert decode correctness.  The decoded point of every curve index
\* equals the point the per-depth swap/invert reference derives for it.
C2_HilbertMatchesReference ==
    h_out # None => h_out = hilbert_reference(curve_idx)

\* a decoded index whose shallowest bit pairs are (1, 1) and (0, 0): an
\* inversion, then a swap, are in force for the deeper pairs
C2_Witness ==
    /\ h_out # None
    /\ HighOrderBit(curve_idx, 0) = 1 /\ LowOrderBit(curve_idx, 0) = 1
    /\ HighOrderBit(curve_idx, 1) = 0 /\ LowOrderBit(curve_idx, 1) = 0
    /\ curve_idx % 4 = 1

\* C6 as stated: the last point of the curve is [0, 1]
C6_EndPointAsStated ==
    (h_out # None /\ curve_idx = CurveIdxMax) => h_out = << 0, 1 >>

\* C6 (amended): the last point of the full curve is [0, 255], the corner
\* of the grid below the first point [0, 0], 255 cells away from it.
C6_EndPoint ==
    /\ (h_out # None /\ curve_idx = CurveIdxMax) => h_out = << 0, CoordinateMax >>
    /\ (h_out # None /\ curve_idx = CurveIdxMin) => h_out = << 0, 0 >>

C6_Witness == h_out # None /\ curve_idx = CurveIdxMax

\* C7: the Hilbert curve is a bijection at every order.  Every decoded point
\* determines its curve index (so no two indices share a point), and for every
\* order k the point of an index below 4^k is a cell of the 2^k x 2^k grid: the
\* 4^k indices of order k fill the 4^k cells, each exactly once.
C7_HilbertBijection ==
    h_out # None =>
        /\ hilbert_index(h_out) = curve_idx
        /\ \A order \in DemoOrders :
              curve_idx < num_points(order) =>
                  /\ h_out[1] < coord_range(order)
                  /\ h_out[2] < coord_range(order)

\* the last index of the order-3 curve has been decoded
C7_Witness == h_out # None /\ curve_idx = num_points(3) - 1

\* C8: lower orders stay inside their grid.  For every order k and every
\* index below 4^k, the point the demo computes passes the range assertion
\* of to_index and lands on a display position of that order's grid.
C8_DemoPointsInRange ==
    h_out # None =>
        \A order \in DemoOrders :
            curve_idx < num_points(order) =>
                LET at == to_index(coordinates_of(order, h_out), coord_range(order))
                IN  /\ ~at.panic
                    /\ at.index < num_points(order) + coord_range(order)
                    /\ at.index % (coord_range(order) + 1) # coord_range(order)

\* the last index of the order-1 curve, which is in range for all 8 orders
C8_Witness == h_out # None /\ curve_idx = num_points(1) - 1 /\ h_out = << 1, 0 >>

\* the quadrants in the order the top-level motif visits them, as the
\* highest-order bits of << x, y >>
TopLevelQuadrants == << << 0, 0 >>, << 1, 0 >>, << 1, 1 >>, << 0, 1 >> >>

\* C20: top-level motif.  With i = bit 15 and j = bit 14 of the curve index,
\* the highest-order bit of x is i XOR j and that of y is i, so the four
\* quarters of the index range visit the quadrants (0,0), (1,0), (1,1), (0,1)
\* in that order.
C20_TopLevelMotif ==
    h_out # None =>
        LET i == HighOrderBit(curve_idx, 0)
            j == LowOrderBit(curve_idx, 0)
            quadrant == << Bit(h_out[1], CoordinateBits - 1), Bit(h_out[2], CoordinateBits - 1) >>
        IN  /\ quadrant[1] = Xor1(i, j)
            /\ quadrant[2] = i
            /\ quadrant = TopLevelQuadrants[curve_idx \div Pow2(CurveIdxBits - 2) + 1]

\* the first index of the last quarter, i = j = 1, has been decoded to a
\* point of the quadrant (0,1)
C20_Witness ==
    /\ h_out # None
    /\ curve_idx = 3 * Pow2(CurveIdxBits - 2)
    /\ h_out[1] < Pow2(CoordinateBits - 1)
    /\ h_out[2] >= Pow2(CoordinateBits - 1)

\* C23: for every order k in 1..=8 the last point of the order-k curve,
\* hilbert::decode_2d(4^k - 1) with its coordinates exchanged when k is odd,
\* is (0, 2^k - 1), and the first point hilbert::decode_2d(0) is (0, 0),
\* exchanged or not; the demo draws them in the first column of the last and
\* of the first row.
C23_EndPoints ==
    h_out # None =>
        /\ \A order \in DemoOrders :
              /\ curve_idx = num_points(order) - 1 =>
                     /\ coordinates_of(order, h_out) = << 0, coord_range(order) - 1 >>
                     /\ to_index(coordinates_of(order, h_out), coord_range(order)) =
                            [panic |-> FALSE,
                             index |-> (coord_range(order) - 1) * (coord_range(order) + 1)]
              /\ curve_idx = 0 =>
                     /\ coordinates_of(order, h_out) = << 0, 0 >>
                     /\ to_index(coordinates_of(order, h_out), coord_range(order)) =
                            [panic |-> FALSE, index |-> 0]
        /\ curve_idx = 0 => h_out = << 0, 0 >>

\* the last point of the order-3 curve has been decoded: (7, 0) before the
\* demo exchanges its coordinates
C23_Witness ==
    /\ curve_idx = num_points(3) - 1
    /\ h_out = << coord_range(3) - 1, 0 >>

(***************************************************************************)
(* The Morton decoder applied to one curve index                           *)
(***************************************************************************)
InitMorton ==
    /\ curve_idx \in CurveIdxValues
    /\ m_out = None
    /\ h_out = None
    /\ h_prev = None
    /\ IdleIter
    /\ IdleMask
    /\ IdleRest

MortonDecode ==
    /\ m_out = None
    /\ decode_2d_debug_assert
    /\ m_out' = morton_decode_2d(curve_idx)
    /\ UNCHANGED << curve_idx, h_out, h_prev, iter_vars, mask_vars, rest_vars >>

NextMorton == MortonDecode

SpecMorton == InitMorton /\ [][NextMorton]_vars

(***************************************************************************)
(* Properties of the Morton decoder                                        *)
(***************************************************************************)
\* C3: Morton decode correctness.  In the decoded pair [x, y] of every curve
\* index, bit k of x is bit 2k of the index and bit k of y is bit 2k + 1 of
\* the index, for k in 0..7, and x and y have no other bit set.
C3_MortonDeinterleave ==
    m_out # None =>
        /\ m_out[1] \in 0..CoordinateMax
        /\ m_out[2] \in 0..CoordinateMax
        /\ \A k \in 0..(CoordinateBits - 1) :
              /\ Bit(m_out[1], k) = Bit(curve_idx, 2 * k)
              /\ Bit(m_out[2], k) = Bit(curve_idx, 2 * k + 1)

\* an index 1010...10 has been decoded: all its set bits went to y
C3_Witness == m_out = << 0, CoordinateMax >> /\ curve_idx = 2 * (CurveIdxMax \div 3)

(***************************************************************************)
(* The Morton iterator: iter_from_2d(start), then calls of next()          *)
(***************************************************************************)
\* iterators of the first NumFullStarts start indices are run to their end
NumFullStarts == 1

\* iterators of the other start indices are advanced at most MaxSteps times
MaxSteps == 2

\* how many elements the model draws from the iterator of a start index
StepBudget(start) == IF start < NumFullStarts THEN CurveIdxMod ELSE MaxSteps

\* iter_from_2d(start) for any start; iter_2d() is iter_from_2d(CurveIdx::MIN)
InitIter ==
    /\ it_start \in CurveIdxValues
    /\ it_next = it_start
    /\ it_exhausted = FALSE
    /\ decode_2d_debug_assert
    /\ it_coords = morton_decode_2d(it_start)
    /\ it_result = None
    /\ it_count = 0
    /\ it_ended = FALSE
    /\ IdleDecode
    /\ IdleMask
    /\ IdleRest

\* next() yields an element: the range yields idx and the closure maps it
IterNextSome ==
    LET r == range_next(it_next, it_exhausted)
    IN  /\ r.item # None
        /\ it_count < StepBudget(it_start)
        /\ LET c == iter_closure(it_coords, r.item[1])
           IN  /\ it_result' = c.result
               /\ it_coords' = c.coords
        /\ it_next' = r.next
        /\ it_exhausted' = r.exhausted
        /\ it_count' = it_count + 1
        /\ UNCHANGED << it_start, it_ended, decode_vars, mask_vars, rest_vars >>

\* next() returns None: the range is exhausted
IterNextNone ==
    LET r == range_next(it_next, it_exhausted)
    IN  /\ r.item = None
        /\ it_ended' = TRUE
        /\ it_next' = r.next
        /\ it_exhausted' = r.exhausted
        /\ UNCHANGED << it_start, it_coords, it_result, it_count, decode_vars, mask_vars, rest_vars >>

NextIter == IterNextSome \/ IterNextNone

SpecIter == InitIter /\ [][NextIter]_vars

\* C4: Morton iterator equivalence.  The n-th element (n from 0) yielded by
\* iter_from_2d(start) is morton::decode_2d(start + n), and start + n never
\* passes CurveIdx::MAX.
C4_IterMatchesDecode ==
    it_result # None =>
        /\ it_start + it_count - 1 <= CurveIdxMax
        /\ it_result = morton_decode_2d(it_start + it_count - 1)

\* iter_2d() has yielded its last element, the one of index 0xFFFF
C4_Witness ==
    /\ it_start = CurveIdxMin
    /\ it_count = CurveIdxMod
    /\ it_result = << CoordinateMax, CoordinateMax >>

\* C5: iterator finiteness and coverage.  iter_from_2d(start) never yields
\* more than 65536 - start elements, it has yielded exactly 65536 - start
\* elements when next() returns None, and it yields nothing after that; the
\* range it maps over stands at index start + (number yielded) until it is
\* exhausted at 0xFFFF, so the indices are taken one by one in ascending order.
C5_IterLength ==
    /\ it_count <= CurveIdxMod - it_start
    /\ it_ended => it_count = CurveIdxMod - it_start
    /\ it_exhausted => (it_count = CurveIdxMod - it_start /\ it_next = CurveIdxMax)
    /\ ~it_exhausted => it_next = it_start + it_count

\* iter_2d() has yielded 65536 elements and next() has then returned None
C5_Witness ==
    /\ it_start = CurveIdxMin
    /\ it_ended
    /\ it_count = CurveIdxMod

\* iter_from_2d(idx) has mapped its first index, idx: every idx in 0..0xFFFF
\* is the first index of one iterator
FirstMapped == it_result # None /\ it_count = 1

\* the number of bits that incrementing idx flips
NumFlipped(idx) == trailing_ones(BitXor(idx, wrapping_add_1(idx)))

\* the coordinates the closure holds after mapping idx are those of idx with
\* the ceil(n / 2) lowest-order bits of x and the floor(n / 2) lowest-order
\* bits of y flipped, and they are morton::decode_2d(idx + 1 mod 2^16)
FlipSplit(idx, n) ==
    /\ it_result = morton_decode_2d(idx)
    /\ it_coords = morton_decode_2d(wrapping_add_1(idx))
    /\ it_coords[1] = BitXor(it_result[1], Pow2((n + 1) \div 2) - 1)
    /\ it_coords[2] = BitXor(it_result[2], Pow2(n \div 2) - 1)

\* C19 as stated: the number n of flipped bits is both
\* trailing_ones(idx XOR (idx + 1 mod 2^16)) and 1 + the number of trailing
\* one bits of idx, for every idx in 0..0xFFFF, and the flips split as
\* ceil(n / 2) bits of x and floor(n / 2) bits of y.
C19_FlipSplitAsStated ==
    FirstMapped =>
        /\ NumFlipped(it_start) = 1 + trailing_ones(it_start)
        /\ FlipSplit(it_start, 1 + trailing_ones(it_start))

\* C19 (amended): with n = trailing_ones(idx XOR (idx + 1 mod 2^16)), which
\* is 1 + the number of trailing one bits of idx below 0xFFFF and 16 at
\* 0xFFFF, morton::decode_2d(idx + 1 mod 2^16) is morton::decode_2d(idx) with
\* the ceil(n / 2) lowest-order bits of x and the floor(n / 2) lowest-order
\* bits of y flipped; the odd extra bit goes to x.
C19_FlipSplit ==
    FirstMapped =>
        /\ NumFlipped(it_start) =
              IF it_start = CurveIdxMax THEN CurveIdxBits ELSE 1 + trailing_ones(it_start)
        /\ FlipSplit(it_start, NumFlipped(it_start))

\* index 3 = 011 has been mapped: n = 3, two bits of x and one bit of y
\* are flipped on the way to the point of index 4
C19_Witness ==
    /\ it_start = 3
    /\ it_count = 1
    /\ it_result = << 1, 1 >>
    /\ it_coords = << 2, 0 >>

\* the index the closure has mapped last
LastMapped == it_start + it_count - 1

\* C22: in every step of iter_from_2d, for every idx up to 0xFFFF (where
\* idx + 1 wraps to 0 and flipped_bits = 0xFFFF), num_flipped_even and
\* num_flipped_odd are at most 8 and add up to num_flipped_bits, both shifted
\* flip masks are at most 0xFF, and the coordinates the closure keeps are the
\* yielded ones XOR the uncast masks: the cast to Coordinate drops no set bit.
C22_NoOverflow ==
    it_result # None =>
        LET locals == closure_locals(LastMapped)
        IN  /\ LastMapped \in it_start..CurveIdxMax
            /\ locals.num_flipped_even \in 0..CoordinateBits
            /\ locals.num_flipped_odd \in 0..CoordinateBits
            /\ locals.num_flipped_even + locals.num_flipped_odd = locals.num_flipped_bits
            /\ locals.shifted_even <= CoordinateMax
            /\ locals.shifted_odd <= CoordinateMax
            /\ it_coords[1] = BitXor(it_result[1], locals.shifted_even)
            /\ it_coords[2] = BitXor(it_result[2], locals.shifted_odd)

\* the closure has mapped the index 0xFFFF: all 16 bits flip, 8 per coordinate
C22_Witness ==
    /\ it_result = << CoordinateMax, CoordinateMax >>
    /\ LastMapped = CurveIdxMax
    /\ closure_locals(LastMapped).flipped_bits = CurveIdxMax
    /\ closure_locals(LastMapped).num_flipped_even = CoordinateBits
    /\ closure_locals(LastMapped).num_flipped_odd = CoordinateBits
    /\ it_coords = << 0, 0 >>

(***************************************************************************)
(* low_order_mask applied to one length                                    *)
(***************************************************************************)
\* the low halves of the lengths tried: 0..MaxMaskLength and the
\* MaxMaskLength + 1 highest 16-bit values
MaxMaskLength == 32

\* the high halves of the lengths tried: 0..MaxMaskHigh, and the three values
\* around the sign bit and the top of u32
MaxMaskHigh == 1

MaskLowHalves == (0..MaxMaskLength) \cup ((HalfMod - 1 - MaxMaskLength)..(HalfMod - 1))

MaskHighHalves == (0..MaxMaskHigh) \cup { HalfMod \div 2 - 1, HalfMod \div 2, HalfMod - 1 }

MaskLengths == { << hi, lo >> : hi \in MaskHighHalves, lo \in MaskLowHalves }

InitMask ==
    /\ mask_length \in MaskLengths
    /\ mask_out = None
    /\ IdleDecode
    /\ IdleIter
    /\ IdleRest

LowOrderMask ==
    /\ mask_out = None
    /\ mask_out' = << low_order_mask(mask_length) >>
    /\ UNCHANGED << mask_length, decode_vars, iter_vars, rest_vars >>

NextMask == LowOrderMask

SpecMask == InitMask /\ [][NextMask]_vars

\* C9: mask correctness.  For every length L in 0..16, bit p of
\* low_order_mask(L) is set exactly when p < L: the mask is 0 for L = 0,
\* 0xFFFF for L = 16, and has no bit above the 16 bits of CurveIdx.
C9_MaskBits ==
    (mask_out # None /\ mask_length[1] = 0 /\ mask_length[2] <= CurveIdxBits) =>
        /\ mask_out[1] \in 0..CurveIdxMax
        /\ \A p \in 0..(CurveIdxBits - 1) : (Bit(mask_out[1], p) = 1) <=> (p < mask_length[2])
        /\ (mask_length[2] = 0 => mask_out[1] = 0)
        /\ (mask_length[2] = CurveIdxBits => mask_out[1] = CurveIdxMax)

\* the mask of length 11, not a power of two, has been computed
C9_Witness == mask_out = << 2047 >> /\ mask_length = << 0, 11 >>

\* C10: mask saturation.  For every length of 16 or more, up to 2^32 - 1,
\* low_order_mask returns 0xFFFF.
C10_MaskSaturates ==
    (mask_out # None /\ (mask_length[1] > 0 \/ mask_length[2] >= CurveIdxBits)) =>
        mask_out = << CurveIdxMax >>

\* the mask of length 2^32 - 1 has been computed
C10_Witness == mask_out = << CurveIdxMax >> /\ mask_length = << HalfMod - 1, HalfMod - 1 >>

(***************************************************************************)
(* The bit primitives of src/bits.rs called on their own, their loops run  *)
(* one iteration at a time                                                 *)
(***************************************************************************)
\* bitwise_swaps is tried on every swap_mask and src1, and on the src2 values
\* 0..MaxSwapSrc2 and 255 - MaxSwapSrc2..255
MaxSwapSrc2 == 1

\* a loop that has run MaxLoopSteps iterations is not followed further
MaxLoopSteps == 17

CoordinateValues == 0..CoordinateMax

SwapSrc2Values == (0..MaxSwapSrc2) \cup ((CoordinateMax - MaxSwapSrc2)..CoordinateMax)

ScanOps == { "bitwise_xor_ltr_inclusive_scan", "bitwise_xor_ltr_exclusive_scan" }

InitBits ==
    /\ IdleLate
    /\ bits_pc = "call"
    /\ bits_steps = 0
    /\ bits_out = None
    /\ IdleDecode
    /\ IdleIter
    /\ IdleWidths
    /\ IdlePair
    /\ \/ /\ bits_op = "low_order_mask"
          /\ mask_length \in MaskLengths
          /\ mask_out = None
          /\ IdleStripe /\ IdleScan /\ IdleSwaps
       \/ /\ bits_op = "striped_mask"
          /\ sm_length \in MaskLengths
          /\ sm_stripes = 0
          /\ sm_curr = U32(0)
          /\ IdleMask /\ IdleScan /\ IdleSwaps
       \/ /\ bits_op \in ScanOps
          /\ sc_in \in CoordinateValues
          /\ sc_bits = 0
          /\ sc_stride = 0
          /\ IdleMask /\ IdleStripe /\ IdleSwaps
       \/ /\ bits_op = "bitwise_swaps"
          /\ sw_mask \in CoordinateValues
          /\ sw_src1 \in CoordinateValues
          /\ sw_src2 \in SwapSrc2Values
          /\ sw_back = None
          /\ IdleMask /\ IdleStripe /\ IdleScan

\* low_order_mask(mask_length): no loop
LowOrderMaskCall ==
    /\ bits_op = "low_order_mask"
    /\ bits_pc = "call"
    /\ mask_out' = << low_order_mask(mask_length) >>
    /\ bits_out' = mask_out'
    /\ bits_pc' = "done"
    /\ UNCHANGED << bits_op, bits_steps, mask_length, stripe_vars, scan_vars, swaps_vars,
                    decode_vars, iter_vars, width_vars, pair_vars, late_vars >>

\* striped_mask(sm_length) up to the head of its loop.  2 * stripe_length
\* overflows from 2^31 on: a build with overflow checks panics there, a build
\* without them keeps the low 32 bits.
StripedMaskEnter ==
    /\ bits_op = "striped_mask"
    /\ bits_pc = "call"
    /\ sm_stripes' = low_order_mask(sm_length)
    /\ \/ /\ ~U32TwiceOverflows(sm_length)
          /\ sm_curr' = U32Twice(sm_length)
          /\ bits_pc' = "loop"
       \/ /\ U32TwiceOverflows(sm_length)
          /\ sm_curr' = U32Twice(sm_length)
          /\ bits_pc' = "loop"
       \/ /\ U32TwiceOverflows(sm_length)
          /\ sm_curr' = sm_curr
          /\ bits_pc' = "panic"
    /\ UNCHANGED << bits_op, bits_steps, bits_out, sm_length, scan_vars, swaps_vars,
                    decode_vars, iter_vars, width_vars, pair_vars, mask_vars, late_vars >>

\* one iteration of the loop of striped_mask
StripedMaskIterate ==
    /\ bits_op = "striped_mask"
    /\ bits_pc = "loop"
    /\ striped_mask_continues(sm_curr)
    /\ bits_steps < MaxLoopSteps
    /\ LET after == striped_mask_iteration(sm_stripes, sm_curr)
       IN  /\ sm_stripes' = after[1]
           /\ sm_curr' = after[2]
    /\ bits_steps' = bits_steps + 1
    /\ UNCHANGED << bits_op, bits_pc, bits_out, sm_length, scan_vars, swaps_vars,
                    decode_vars, iter_vars, width_vars, pair_vars, mask_vars, late_vars >>

\* the loop of striped_mask ends and stripes is returned
StripedMaskReturn ==
    /\ bits_op = "striped_mask"
    /\ bits_pc = "loop"
    /\ ~striped_mask_continues(sm_curr)
    /\ bits_out' = << sm_stripes >>
    /\ bits_pc' = "done"
    /\ UNCHANGED << bits_op, bits_steps, stripe_vars, scan_vars, swaps_vars,
                    decode_vars, iter_vars, width_vars, pair_vars, mask_vars, late_vars >>

\* bitwise_xor_ltr_inclusive_scan(sc_in) up to the head of its loop
InclusiveScanEnter ==
    /\ bits_op = "bitwise_xor_ltr_inclusive_scan"
    /\ bits_pc = "call"
    /\ sc_bits' = sc_in
    /\ sc_stride' = 1
    /\ bits_pc' = "loop"
    /\ UNCHANGED << bits_op, bits_steps, bits_out, sc_in, stripe_vars, swaps_vars,
                    decode_vars, iter_vars, width_vars, pair_vars, mask_vars, late_vars >>

\* bitwise_xor_ltr_exclusive_scan(sc_in) up to the head of the loop of the
\* inclusive scan it calls
ExclusiveScanEnter ==
    /\ bits_op = "bitwise_xor_ltr_exclusive_scan"
    /\ bits_pc = "call"
    /\ sc_bits' = exclusive_scan_operand(sc_in)
    /\ sc_stride' = 1
    /\ bits_pc' = "loop"
    /\ UNCHANGED << bits_op, bits_steps, bits_out, sc_in, stripe_vars, swaps_vars,
                    decode_vars, iter_vars, width_vars, pair_vars, mask_vars, late_vars >>

\* one iteration of the loop of bitwise_xor_ltr_inclusive_scan
ScanIterate ==
    /\ bits_op \in ScanOps
    /\ bits_pc = "loop"
    /\ inclusive_scan_continues(sc_stride)
    /\ bits_steps < MaxLoopSteps
    /\ LET after == inclusive_scan_iteration(sc_bits, sc_stride)
       IN  /\ sc_bits' = after[1]
           /\ sc_stride' = after[2]
    /\ bits_steps' = bits_steps + 1
    /\ UNCHANGED << bits_op, bits_pc, bits_out, sc_in, stripe_vars, swaps_vars,
                    decode_vars, iter_vars, width_vars, pair_vars, mask_vars, late_vars >>

\* the loop of the scan ends and bits is returned
ScanReturn ==
    /\ bits_op \in ScanOps
    /\ bits_pc = "loop"
    /\ ~inclusive_scan_continues(sc_stride)
    /\ bits_out' = << sc_bits >>
    /\ bits_pc' = "done"
    /\ UNCHANGED << bits_op, bits_steps, scan_vars, stripe_vars, swaps_vars,
                    decode_vars, iter_vars, width_vars, pair_vars, mask_vars, late_vars >>

\* bitwise_swaps(sw_mask, sw_src1, sw_src2): no loop
BitwiseSwapsCall ==
    /\ bits_op = "bitwise_swaps"
    /\ bits_pc = "call"
    /\ bits_out' = bitwise_swaps(sw_mask, sw_src1, sw_src2)
    /\ bits_pc' = "done"
    /\ UNCHANGED << bits_op, bits_steps, swaps_vars, stripe_vars, scan_vars,
                    decode_vars, iter_vars, width_vars, pair_vars, mask_vars, late_vars >>

\* bitwise_swaps called again on its two results, with the same mask
BitwiseSwapsAgain ==
    /\ bits_op = "bitwise_swaps"
    /\ bits_pc = "done"
    /\ sw_back = None
    /\ sw_back' = bitwise_swaps(sw_mask, bits_out[1], bits_out[2])
    /\ UNCHANGED << call_vars, sw_mask, sw_src1, sw_src2, stripe_vars, scan_vars,
                    decode_vars, iter_vars, width_vars, pair_vars, mask_vars, late_vars >>

NextBits ==
    \/ LowOrderMaskCall
    \/ StripedMaskEnter
    \/ StripedMaskIterate
    \/ StripedMaskReturn
    \/ InclusiveScanEnter
    \/ ExclusiveScanEnter
    \/ ScanIterate
    \/ ScanReturn
    \/ BitwiseSwapsCall
    \/ BitwiseSwapsAgain

SpecBits == InitBits /\ [][NextBits]_vars

(***************************************************************************)
(* Properties of the bit primitives                                        *)
(***************************************************************************)
\* the call has returned
BitsReturned(op) == bits_op = op /\ bits_pc = "done"

\* the XOR of the n highest-order bits of the Coordinate x
RECURSIVE XorOfHighBits(_, _)
XorOfHighBits(x, n) ==
    IF n = 0 THEN 0 ELSE Xor1(XorOfHighBits(x, n - 1), Bit(x, CoordinateBits - n))

\* C11: striped mask correctness.  For every stripe length k in 1..15, bit p
\* of striped_mask(k) is set exactly when floor(p / k) is even, for p in
\* 0..15; striped_mask(1) is 0x5555 and striped_mask(2) is 0x3333.
C11_StripedMask ==
    (BitsReturned("striped_mask") /\ sm_length[1] = 0 /\ sm_length[2] \in 1..(CurveIdxBits - 1)) =>
        /\ bits_out[1] \in 0..CurveIdxMax
        /\ \A p \in 0..(CurveIdxBits - 1) :
              (Bit(bits_out[1], p) = 1) <=> ((p \div sm_length[2]) % 2 = 0)
        /\ (sm_length[2] = 1 => bits_out[1] = 21845)
        /\ (sm_length[2] = 2 => bits_out[1] = 13107)

\* striped_mask(3), whose stripes do not divide 16, has returned 0x71C7
C11_Witness ==
    BitsReturned("striped_mask") /\ sm_length = << 0, 3 >> /\ bits_out = << 29127 >>

\* C12: inclusive scan correctness.  For every 8-bit x and i in 1..8, the
\* i-th bit from the top of bitwise_xor_ltr_inclusive_scan(x) is the XOR of
\* the i highest-order bits of x, and the loop has run the three strides
\* 1, 2 and 4.
C12_InclusiveScan ==
    BitsReturned("bitwise_xor_ltr_inclusive_scan") =>
        /\ bits_out[1] \in CoordinateValues
        /\ \A i \in 1..CoordinateBits :
              Bit(bits_out[1], CoordinateBits - i) = XorOfHighBits(sc_in, i)
        /\ bits_steps = 3
        /\ sc_stride = CoordinateBits

\* the scan of 1011 0010 has returned 1101 1100
C12_Witness ==
    BitsReturned("bitwise_xor_ltr_inclusive_scan") /\ sc_in = 178 /\ bits_out = << 220 >>

\* C13: scan law.  For every 8-bit x, bitwise_xor_ltr_exclusive_scan(x) is
\* bitwise_xor_ltr_inclusive_scan(x) >> 1: its highest-order bit is 0 and
\* its i-th bit from the top is the XOR of the i - 1 highest-order bits of x.
C13_ScanLaw ==
    BitsReturned("bitwise_xor_ltr_exclusive_scan") =>
        /\ bits_out[1] = Shr(bitwise_xor_ltr_inclusive_scan(sc_in), 1)
        /\ Bit(bits_out[1], CoordinateBits - 1) = 0
        /\ \A i \in 1..CoordinateBits :
              Bit(bits_out[1], CoordinateBits - i) = XorOfHighBits(sc_in, i - 1)

\* the exclusive scan of 1011 0010 has returned 0110 1110
C13_Witness ==
    BitsReturned("bitwise_xor_ltr_exclusive_scan") /\ sc_in = 178 /\ bits_out = << 110 >>

\* C14: bitwise swap semantics.  At every bit position p, the results
\* [r1, r2] of bitwise_swaps(mask, src1, src2) hold the bits of src1 and src2
\* in place where the mask bit is 0 and exchanged where it is 1.
C14_SwapSemantics ==
    BitsReturned("bitwise_swaps") =>
        /\ bits_out[1] \in CoordinateValues
        /\ bits_out[2] \in CoordinateValues
        /\ \A p \in 0..(CoordinateBits - 1) :
              IF Bit(sw_mask, p) = 0
              THEN Bit(bits_out[1], p) = Bit(sw_src1, p) /\ Bit(bits_out[2], p) = Bit(sw_src2, p)
              ELSE Bit(bits_out[1], p) = Bit(sw_src2, p) /\ Bit(bits_out[2], p) = Bit(sw_src1, p)

\* mask 0000 1111 has exchanged the low halves of 1010 1010 and 1111 1111
C14_Witness ==
    /\ BitsReturned("bitwise_swaps")
    /\ sw_mask = 15 /\ sw_src1 = 170 /\ sw_src2 = 255
    /\ bits_out = << 175, 250 >>

\* C15: swap involution.  bitwise_swaps applied with the same mask to its
\* own two results returns the two original operands.
C15_SwapInvolution ==
    sw_back # None => sw_back = << sw_src1, sw_src2 >>

\* the exchanged low halves of 1010 1010 and 1111 1111 have been put back
C15_Witness ==
    /\ sw_mask = 15 /\ sw_src1 = 170 /\ sw_src2 = 255
    /\ bits_out = << 175, 250 >>
    /\ sw_back = << 170, 255 >>

\* C16 as stated: each primitive returns a result, after a number of loop
\* steps bounded by the integer width, for every input, every NumBits value
\* of stripe_length included: no call panics, no loop runs more than 16
\* iterations, and no iteration leaves the loop where it was.
C16_TotalAsStated ==
    /\ bits_pc # "panic"
    /\ bits_steps <= CurveIdxBits
    /\ (bits_op = "striped_mask" /\ bits_pc = "loop" /\ striped_mask_continues(sm_curr)) =>
          striped_mask_iteration(sm_stripes, sm_curr) # << sm_stripes, sm_curr >>

\* the stripe lengths the sanity check noted at the entry of striped_mask
\* lets through, and those above them for which 2 * stripe_length fits
StripeLengthInDomain ==
    bits_op = "striped_mask" => (sm_length # U32(0) /\ ~U32TwiceOverflows(sm_length))

\* C16 (amended): low_order_mask, the two XOR scans and bitwise_swaps return
\* a result for every input, and striped_mask for every stripe_length in
\* 1..2^31 - 1: no call panics, a call that has not returned can take its
\* next step (bitwise_swaps, which has no branch, has its two results), and
\* no loop runs more than 3 iterations.
C16_Total ==
    StripeLengthInDomain =>
        /\ bits_pc # "panic"
        /\ bits_steps <= 3
        /\ (bits_pc = "loop" /\ bits_steps = 3) =>
              IF bits_op = "striped_mask"
              THEN ~striped_mask_continues(sm_curr)
              ELSE ~inclusive_scan_continues(sc_stride)
        /\ bits_pc = "loop" =>
              ENABLED (StripedMaskIterate \/ StripedMaskReturn \/ ScanIterate \/ ScanReturn)
        /\ bits_pc = "call" =>
              CASE bits_op = "low_order_mask" -> ENABLED LowOrderMaskCall
                [] bits_op = "striped_mask" -> ENABLED StripedMaskEnter
                [] bits_op = "bitwise_xor_ltr_inclusive_scan" -> ENABLED InclusiveScanEnter
                [] bits_op = "bitwise_xor_ltr_exclusive_scan" -> ENABLED ExclusiveScanEnter
                [] bits_op = "bitwise_swaps" ->
                       bitwise_swaps(sw_mask, sw_src1, sw_src2) \in CoordinateValues \X CoordinateValues

\* striped_mask(1) has returned after the 3 iterations of its loop
C16_Witness ==
    /\ BitsReturned("striped_mask")
    /\ sm_length = U32(1)
    /\ bits_steps = 3
    /\ bits_out = << 21845 >>

(***************************************************************************)
(* decode_2d entered with CurveIdx and Coordinate of any unsigned integer  *)
(* width: what the debug_assert! at its entry lets through                 *)
(***************************************************************************)
\* the widths of the unsigned integer types u8, u16, u32, u64, u128
IntegerWidths == { 8, 16, 32, 64, 128 }

\* the public functions that go through the entry of morton::decode_2d
DecodeEntries == { "morton::decode_2d", "morton::iter_from_2d", "hilbert::decode_2d" }

InitWidths ==
    /\ w_index_bits \in IntegerWidths
    /\ w_coord_bits \in IntegerWidths
    /\ w_debug \in BOOLEAN
    /\ w_entry \in DecodeEntries
    /\ w_outcome = "none"
    /\ IdleDecode
    /\ IdleIter
    /\ IdleMask
    /\ IdleBits
    /\ IdlePair
    /\ IdleLate

\* the call reaches morton::decode_2d: the assertion is evaluated in a build
\* with debug assertions, then the sub-codes are packed and cast
WidthsDecodeEntry ==
    /\ w_outcome = "none"
    /\ w_entry \in DecodeEntries
    /\ w_outcome' =
          IF w_debug /\ ~debug_assert_holds(w_index_bits, w_coord_bits) THEN "panic"
          ELSE IF cast_drops_bits(w_index_bits, w_coord_bits) THEN "truncated"
          ELSE "decoded"
    /\ UNCHANGED << w_index_bits, w_coord_bits, w_debug, w_entry,
                    decode_vars, iter_vars, mask_vars, bits_vars, pair_vars, late_vars >>

NextWidths == WidthsDecodeEntry

SpecWidths == InitWidths /\ [][NextWidths]_vars

\* C17: width-mismatch detection.  In a build with debug assertions, every
\* configuration whose CurveIdx is not exactly twice as wide as its
\* Coordinate fails the assertion at the entry of morton::decode_2d, so that
\* no call returns truncated coordinates; the 16/8-bit configuration never
\* fails it.
C17_MismatchCaught ==
    w_outcome # "none" =>
        /\ (w_debug /\ w_index_bits # 2 * w_coord_bits) => w_outcome = "panic"
        /\ w_debug => w_outcome # "truncated"
        /\ (w_index_bits = CurveIdxBits /\ w_coord_bits = CoordinateBits) => w_outcome = "decoded"

\* CurveIdx = u32 with Coordinate = u8 has passed the assertion of a debug
\* build and its coordinates have lost their upper halves
C17_Witness ==
    /\ w_debug
    /\ w_index_bits = 32
    /\ w_coord_bits = 8
    /\ w_outcome = "truncated"

(***************************************************************************)
(* Two iterator instances made by iter_from_2d and advanced in any order   *)
(***************************************************************************)
\* the instances start at 0..MaxPairStart or 0xFFFF - MaxPairStart..0xFFFF
MaxPairStart == 2

\* an instance is advanced until it has yielded MaxPairSteps elements
MaxPairSteps == 4

PairStarts == (CurveIdxMin..MaxPairStart) \cup ((CurveIdxMax - MaxPairStart)..CurveIdxMax)

InitPair ==
    /\ IdlePair
    /\ IdleDecode
    /\ IdleIter
    /\ IdleMask
    /\ IdleBits
    /\ IdleWidths
    /\ IdleLate

\* iter_from_2d(start) makes the instance id, at any time
PairCreate ==
    \E id \in IterIds, start \in PairStarts :
        /\ ~pi_iters[id].made
        /\ decode_2d_debug_assert
        /\ pi_iters' = [pi_iters EXCEPT ![id] =
              [made |-> TRUE, start |-> start, next |-> start, exhausted |-> FALSE,
               result |-> None, count |-> 0, ended |-> FALSE]]
        /\ pi_coords' = [pi_coords EXCEPT ![captured_coords(id)] = morton_decode_2d(start)]
        /\ UNCHANGED << decode_vars, iter_vars, mask_vars, bits_vars, width_vars,
                        late_vars >>

\* next() on the instance id yields an element
PairNextSome ==
    \E id \in IterIds :
        LET it == pi_iters[id]
            r == range_next(it.next, it.exhausted)
        IN  /\ it.made
            /\ r.item # None
            /\ it.count < MaxPairSteps
            /\ LET c == iter_closure(pi_coords[captured_coords(id)], r.item[1])
               IN  /\ pi_iters' = [pi_iters EXCEPT ![id] =
                          [it EXCEPT !.next = r.next, !.exhausted = r.exhausted,
                                     !.result = c.result, !.count = it.count + 1]]
                   /\ pi_coords' = [pi_coords EXCEPT ![captured_coords(id)] = c.coords]
            /\ UNCHANGED << decode_vars, iter_vars, mask_vars, bits_vars, width_vars,
                        late_vars >>

\* next() on the instance id returns None
PairNextNone ==
    \E id \in IterIds :
        LET it == pi_iters[id]
            r == range_next(it.next, it.exhausted)
        IN  /\ it.made
            /\ r.item = None
            /\ pi_iters' = [pi_iters EXCEPT ![id] =
                  [it EXCEPT !.next = r.next, !.exhausted = r.exhausted, !.ended = TRUE]]
            /\ UNCHANGED << pi_coords, decode_vars, iter_vars, mask_vars, bits_vars, width_vars,
                        late_vars >>

NextPair == PairCreate \/ PairNextSome \/ PairNextNone

SpecPair == InitPair /\ [][NextPair]_vars

\* an iterator made by iter_from_2d(start) that nothing else runs beside
solo_start(start) ==
    [next |-> start, exhausted |-> FALSE, coords |-> morton_decode_2d(start),
     result |-> None, count |-> 0, ended |-> FALSE]

\* one call of next() on it
solo_next(it) ==
    LET r == range_next(it.next, it.exhausted)
    IN  IF r.item = None
        THEN [it EXCEPT !.next = r.next, !.exhausted = r.exhausted, !.ended = TRUE]
        ELSE LET c == iter_closure(it.coords, r.item[1])
             IN  [it EXCEPT !.next = r.next, !.exhausted = r.exhausted, !.coords = c.coords,
                            !.result = c.result, !.count = it.count + 1]

\* the iterator after n calls of next()
RECURSIVE solo_after(_, _)
solo_after(start, n) ==
    IF n = 0 THEN solo_start(start) ELSE solo_next(solo_after(start, n - 1))

\* C18: iterator independence.  Whatever the order in which two instances
\* are made and advanced, and whether their start values are equal or not,
\* each instance has yielded what an instance with its start value yields
\* when it is run alone through as many calls of next(): the same last
\* element, the same number of elements, and None at the same call.
C18_IterIndependent ==
    \A id \in IterIds :
        LET it == pi_iters[id]
            alone == solo_after(it.start, it.count + (IF it.ended THEN 1 ELSE 0))
        IN  it.made =>
                /\ it.result = alone.result
                /\ it.count = alone.count
                /\ it.ended = alone.ended
                /\ it.next = alone.next
                /\ it.exhausted = alone.exhausted

\* iter_from_2d(0) has yielded the points of 0 and 1, and beside it
\* iter_from_2d(0xFFFF) has yielded its only point and then None
C18_Witness ==
    /\ pi_iters[1].start = CurveIdxMin
    /\ pi_iters[1].count = 2
    /\ pi_iters[1].result = << 1, 0 >>
    /\ pi_iters[2].start = CurveIdxMax
    /\ pi_iters[2].ended
    /\ pi_iters[2].result = << CoordinateMax, CoordinateMax >>

(***************************************************************************)
(* The snapshot of src/lib.rs: its low_order_mask and its two decoders     *)
(***************************************************************************)
\* the lengths of the sanity check of the snapshot's low_order_mask
SnapshotLengths == { U32(n) : n \in 0..CurveIdxBits }

SnapshotDecoders == {"decode_morton_2d", "decode_hilbert_2d"}

InitSnapshot ==
    /\ \/ /\ sn_op = "low_order_mask"
          /\ sn_length \in SnapshotLengths
          /\ curve_idx = CurveIdxMin
       \/ /\ sn_op \in SnapshotDecoders
          /\ sn_length = U32(0)
          /\ curve_idx \in CurveIdxValues
    /\ sn_out = None
    /\ m_out = None
    /\ h_out = None
    /\ h_prev = None
    /\ IdleIter
    /\ IdleMask
    /\ IdleBits
    /\ IdleWidths
    /\ IdlePair
    /\ IdleSteps

SnapshotLowOrderMask ==
    /\ sn_op = "low_order_mask"
    /\ sn_out = None
    /\ sn_out' = << snapshot_low_order_mask(sn_length) >>
    /\ UNCHANGED << sn_op, sn_length, steps_vars, decode_vars, iter_vars, mask_vars,
                    bits_vars, width_vars, pair_vars >>

SnapshotDecodeMorton ==
    /\ sn_op = "decode_morton_2d"
    /\ sn_out = None
    /\ sn_out' = decode_morton_2d(curve_idx)
    /\ UNCHANGED << sn_op, sn_length, steps_vars, decode_vars, iter_vars, mask_vars,
                    bits_vars, width_vars, pair_vars >>

SnapshotDecodeHilbert ==
    /\ sn_op = "decode_hilbert_2d"
    /\ sn_out = None
    /\ sn_out' = decode_hilbert_2d(curve_idx)
    /\ UNCHANGED << sn_op, sn_length, steps_vars, decode_vars, iter_vars, mask_vars,
                    bits_vars, width_vars, pair_vars >>

NextSnapshot ==
    \/ SnapshotLowOrderMask
    \/ SnapshotDecodeMorton
    \/ SnapshotDecodeHilbert

SpecSnapshot == InitSnapshot /\ [][NextSnapshot]_vars

\* u32::is_power_of_two
is_power_of_two(n) == \E k \in 0..CurveIdxBits : n = Pow2(k)

\* the smallest power of two that is not below n
next_power_of_two(n) == Pow2(CHOOSE k \in 0..CurveIdxBits :
                                /\ n <= Pow2(k)
                                /\ \A j \in 0..(k - 1) : Pow2(j) < n)

\* the snapshot's low_order_mask has returned
SnapshotMaskReturned == sn_op = "low_order_mask" /\ sn_out # None

\* C21 as stated: for every length L in 0..=16 the doubling low_order_mask
\* returns the integer whose L lowest-order bits are 1 and the rest 0, the
\* value of bits::low_order_mask(L).
C21_DoublingAsStated ==
    SnapshotMaskReturned =>
        /\ sn_out[1] = low_order_mask(sn_length)
        /\ \A p \in 0..(CurveIdxBits - 1) :
              Bit(sn_out[1], p) = IF p < U32Low(sn_length) THEN 1 ELSE 0

\* C21: for L = 0 and for every power of two L in 1..=16 the doubling
\* low_order_mask returns the integer whose L lowest-order bits are 1 and the
\* rest 0, the value of bits::low_order_mask(L); for every other L in 0..=16
\* it returns bits::low_order_mask of the next power of two above L.
C21_Doubling ==
    SnapshotMaskReturned =>
        LET L == U32Low(sn_length)
        IN  IF L = 0 \/ is_power_of_two(L)
            THEN /\ sn_out[1] = low_order_mask(sn_length)
                 /\ \A p \in 0..(CurveIdxBits - 1) :
                       Bit(sn_out[1], p) = IF p < L THEN 1 ELSE 0
            ELSE /\ sn_out[1] = low_order_mask(U32(next_power_of_two(L)))
                 /\ sn_out[1] # low_order_mask(sn_length)

\* the doubling low_order_mask has returned 0xFF for the length 8
C21_Witness ==
    /\ SnapshotMaskReturned
    /\ sn_length = U32(CoordinateBits)
    /\ sn_out = << CoordinateMax >>

\* C24: for every code in 0..=0xFFFF the decoders of the snapshot agree with
\* the decoders of the modules: decode_morton_2d(code) = morton::decode_2d(code)
\* and decode_hilbert_2d(code) = hilbert::decode_2d(code).
C24_SnapshotAgrees ==
    /\ (sn_op = "decode_morton_2d" /\ sn_out # None) =>
           sn_out = morton_decode_2d(curve_idx)
    /\ (sn_op = "decode_hilbert_2d" /\ sn_out # None) =>
           sn_out = hilbert_decode_2d(curve_idx)

\* the snapshot's Hilbert decoder has returned the last point of the curve
C24_Witness ==
    /\ sn_op = "decode_hilbert_2d"
    /\ curve_idx = CurveIdxMax
    /\ sn_out = << 0, CoordinateMax >>

(***************************************************************************)
(* morton::decode_2d, one loop iteration at a time                         *)
(***************************************************************************)
InitSteps ==
    /\ curve_idx \in CurveIdxValues
    /\ m_out = None
    /\ h_out = None
    /\ h_prev = None
    /\ md_pc = "call"
    /\ md_sub_codes = None
    /\ md_sub_code_idx = 0
    /\ md_sub_code = 0
    /\ md_group_size = 0
    /\ IdleIter
    /\ IdleMask
    /\ IdleBits
    /\ IdleWidths
    /\ IdlePair
    /\ IdleSnapshot

\* the entry of decode_2d: the assertion, then the two sub-codes
StepsEnter ==
    /\ md_pc = "call"
    /\ decode_2d_debug_assert
    /\ md_sub_codes' = << curve_idx, Shr(curve_idx, 1) >>
    /\ md_sub_code_idx' = 0
    /\ md_pc' = "outer"
    /\ UNCHANGED << md_sub_code, md_group_size, snap_vars, decode_vars, iter_vars,
                    mask_vars, bits_vars, width_vars, pair_vars >>

\* the outer loop takes the next sub-code and zeroes the junk out
StepsSubCode ==
    /\ md_pc = "outer"
    /\ md_sub_code_idx < 2
    /\ md_sub_code' = BitAnd(md_sub_codes[md_sub_code_idx + 1], morton_striped_mask[1])
    /\ md_group_size' = 1
    /\ md_pc' = "inner"
    /\ UNCHANGED << md_sub_codes, md_sub_code_idx, snap_vars, decode_vars, iter_vars,
                    mask_vars, bits_vars, width_vars, pair_vars >>

\* one iteration of the inner loop
StepsGroup ==
    /\ md_pc = "inner"
    /\ morton_group_continues(md_group_size)
    /\ LET after == morton_group_iteration(md_sub_code, md_group_size)
       IN  /\ md_sub_code' = after[1]
           /\ md_group_size' = after[2]
    /\ UNCHANGED << md_pc, md_sub_codes, md_sub_code_idx, snap_vars, decode_vars,
                    iter_vars, mask_vars, bits_vars, width_vars, pair_vars >>

\* the inner loop is over: the packed sub-code is recorded
StepsRecord ==
    /\ md_pc = "inner"
    /\ ~morton_group_continues(md_group_size)
    /\ md_sub_codes' = [md_sub_codes EXCEPT ![md_sub_code_idx + 1] = md_sub_code]
    /\ md_sub_code_idx' = md_sub_code_idx + 1
    /\ md_pc' = "outer"
    /\ UNCHANGED << md_sub_code, md_group_size, snap_vars, decode_vars, iter_vars,
                    mask_vars, bits_vars, width_vars, pair_vars >>

\* the outer loop is over: the two sub-codes are cast and returned
StepsReturn ==
    /\ md_pc = "outer"
    /\ md_sub_code_idx >= 2
    /\ m_out' = << AsCoordinate(md_sub_codes[1]), AsCoordinate(md_sub_codes[2]) >>
    /\ md_pc' = "done"
    /\ UNCHANGED << curve_idx, h_out, h_prev, md_sub_codes, md_sub_code_idx, md_sub_code,
                    md_group_size, snap_vars, iter_vars, mask_vars, bits_vars,
                    width_vars, pair_vars >>

NextSteps ==
    \/ StepsEnter
    \/ StepsSubCode
    \/ StepsGroup
    \/ StepsRecord
    \/ StepsReturn

SpecSteps == InitSteps /\ [][NextSteps]_vars

\* the set bits of a sub-code lie in the even groups of g positions
InEvenGroups(sub_code, g) ==
    \A p \in 0..(CurveIdxBits - 1) : Bit(sub_code, p) = 1 => (p \div g) % 2 = 0

\* C25: for every code and both sub-codes of morton::decode_2d, after the
\* iteration of the inner loop that sets group_size to g (2, 4, 8) the set bits
\* of the sub-code lie at positions p with floor(p / g) even; after the loop
\* the sub-code is <= 0xFF, and the cast to Coordinate returns it unchanged,
\* as the result of morton::decode_2d(code).
C25_Compaction ==
    /\ (md_pc = "inner" /\ md_group_size >= 2) =>
           /\ md_group_size \in {2, 4, 8}
           /\ InEvenGroups(md_sub_code, md_group_size)
    /\ (md_pc = "inner" /\ ~morton_group_continues(md_group_size)) =>
           md_sub_code <= CoordinateMax
    /\ md_pc = "done" =>
           /\ md_sub_codes[1] <= CoordinateMax
           /\ md_sub_codes[2] <= CoordinateMax
           /\ m_out = md_sub_codes
           /\ m_out = morton_decode_2d(curve_idx)

\* the second sub-code of the index 0xFFFF after the iteration that sets
\* group_size to 4: the bits 0..3 and 8..11 are set
C25_Witness ==
    /\ curve_idx = CurveIdxMax
    /\ md_pc = "inner"
    /\ md_sub_code_idx = 1
    /\ md_group_size = 4
    /\ md_sub_code = 15 + 15 * 256

====
